---- MODULE Spec2Model ----
(***************************************************************************)
(* Model of src/src/index.js: the timer-triggered export handler           *)
(* (module.exports), its helpers connectToMongoDB, fetchDataFromMongoDB,   *)
(* generateCSV, uploadToBlob and the bounded retry wrapper retryOperation. *)
(*                                                                         *)
(* The file holds the program twice (lines 1-124 and 125-253); the two     *)
(* copies differ only in the log level of the error lines and in a few     *)
(* extra progress lines.  The model follows the first copy.                *)
(*                                                                         *)
(* Every `await` of the source is a suspension point: the code between two *)
(* awaits is one action.  The collaborators (MongoClient, the container    *)
(* client, the block blob client) are the environment: each call is        *)
(* answered nondeterministically by a return or by a thrown Error.         *)
(***************************************************************************)
EXTENDS Integers, Sequences, FiniteSets, TLC

(* ---------------------------------------------------------------- bounds *)

\* the clock advances by TickMs per Tick, freely up to MaxTime
TickMs == 500
MaxTime == 1000
\* largest maxRetries argument tried when retryOperation is called directly
MaxRetriesArg == 4
\* most connect attempts that two overlapping runs make together
MaxConcClients == 3
\* longest batch handed to generateCSV when it is run on its own
MaxDocs == 2

(* ------------------------------------------------------ program constants *)

\* retryOperation's default arguments (maxRetries = 3, delay = 1000)
DefaultMaxRetries == 3
DefaultDelay == 1000

\* the handler invocations that can exist; Spec runs the first one alone
Runs == {1, 2}

\* the five names destructured from process.env
ConfigNames ==
  {"MongoDBAtlasConnectionString", "DatabaseName", "CollectionName",
   "AzureBlobStorageConnectionString", "BlobContainerName"}

\* an environment variable is undefined, the empty string or a non-empty string
Undefined == "undefined"
EnvValues == {Undefined, "", "v"}

\* names of the errors the drivers throw; "Error" stands for any other name
DriverErrorNames == {"MongoServerSelectionError", "MongoNetworkError", "Error"}

(* ------------------------------------------------------------ CustomError *)

NoError == [name |-> "none", type |-> "none", message |-> <<>>, id |-> 0]

\* new CustomError(message, type): name is the constructor's name
CustomError(message, type) ==
  [name |-> "CustomError", type |-> type, message |-> message, id |-> 0]

\* an Error thrown by a driver call; id tells the error objects apart
DriverError(name, id) ==
  [name |-> name, type |-> "none", message |-> <<name>>, id |-> id]

(* ------------------------------------------------------------ generateCSV *)

\* a document is a sequence of <<key, value>> pairs in the object's key order
Keys(doc) == [i \in 1..Len(doc) |-> doc[i][1]]

HasKey(doc, k) == \E i \in 1..Len(doc) : doc[i][1] = k

ValueOf(doc, k) == doc[CHOOSE i \in 1..Len(doc) : doc[i][1] = k][2]

\* decimal text of a one-digit number
NumText(n) ==
  CASE n = 0 -> "0" [] n = 1 -> "1" [] n = 2 -> "2" [] n = 3 -> "3"
    [] n = 4 -> "4" [] n = 5 -> "5" [] n = 6 -> "6" [] n = 7 -> "7"
    [] n = 8 -> "8" [] OTHER -> "9"

\* json2csv: a header cell is the field name in double quotes
HeaderCell(k) == <<"\"", k, "\"">>

\* json2csv: a number is written bare, an absent field is the empty cell
ValueCell(doc, k) == IF HasKey(doc, k) THEN <<NumText(ValueOf(doc, k))>> ELSE <<>>

RECURSIVE JoinWith(_, _)
JoinWith(parts, sep) ==
  IF Len(parts) = 0 THEN <<>>
  ELSE IF Len(parts) = 1 THEN parts[1]
  ELSE parts[1] \o <<sep>> \o JoinWith(Tail(parts), sep)

HeaderLine(fields) == JoinWith([i \in 1..Len(fields) |-> HeaderCell(fields[i])], ",")

RowLine(doc, fields) == JoinWith([i \in 1..Len(fields) |-> ValueCell(doc, fields[i])], ",")

\* json2csv leaves out a row whose cells are all empty (includeEmptyRows is
\* false by default)
EmptyRow(doc, fields) == \A i \in 1..Len(fields) : ValueCell(doc, fields[i]) = <<>>

\* parse(documents, { fields }): header line, then one line per document
\* that has a non-empty cell, joined by newlines with none at the end
parse(documents, fields) ==
  LET rows == SelectSeq(documents, LAMBDA d : ~EmptyRow(d, fields))
  IN  JoinWith(<<HeaderLine(fields)>> \o
               [i \in 1..Len(rows) |-> RowLine(rows[i], fields)], "\n")

\* variant: the columns are taken from the last record instead of the first
generateCSVLastKeys(documents) == parse(documents, Keys(documents[Len(documents)]))

\* const fields = Object.keys(documents[0]); return parse(documents, { fields })
generateCSV(documents) == parse(documents, Keys(documents[1]))

\* the results collection.find({}).toArray() can deliver
Batches ==
  { <<>>,
    << <<(<<"a", 1>>), (<<"b", 2>>)>>, <<(<<"a", 3>>), (<<"b", 4>>)>> >>,
    << <<(<<"a", 1>>), (<<"b", 2>>)>>, <<(<<"b", 4>>), (<<"c", 5>>)>> >>,
    << <<(<<"b", 7>>)>> >> }

\* stored documents as MongoDB returns them: _id first, then any of the
\* fields a and b in either order
FieldLists == { <<>>, <<"a">>, <<"b">>, <<"a", "b">>, <<"b", "a">> }

CsvDocs ==
  UNION { { <<(<<"_id", id>>)>> \o [i \in 1..Len(fl) |-> <<fl[i], vals[i]>>] :
              vals \in [1..Len(fl) -> {3, 4}] } :
          id \in {1, 2}, fl \in FieldLists }

\* the batches of 1 to MaxDocs stored documents
CsvBatches == UNION { [1..n -> CsvDocs] : n \in 1..MaxDocs }

(* ---------------------------------------------------------------- naming *)

\* Date.prototype.toISOString at millisecond resolution: seconds and millis
toISOString(t) == [sec |-> t \div 1000, ms |-> t % 1000]

\* `data-export-${timeStamp}.csv`
BlobName(timeStamp) == [prefix |-> "data-export-", stamp |-> timeStamp, ext |-> ".csv"]

(* ----------------------------------------------------------------- state *)

VARIABLES
  env,      \* process.env: the five configuration values
  now,      \* the wall clock, in milliseconds
  storage,  \* the blob service: whether the container exists, and its blobs
  clients,  \* every MongoClient object created so far, by creation order
  h,        \* per invocation: the handler's locals and its position
  rt,       \* per invocation: the retryOperation call's locals and position
  log,      \* per invocation: the lines written to context.log
  calls     \* per invocation: the collaborator calls made, in order

vars == <<env, now, storage, clients, h, rt, log, calls>>

NoClient == 0
NoStamp == [sec |-> 0 - 1, ms |-> 0 - 1]
NoBlobName == BlobName(NoStamp)

\* the handler's locals before the first statement has run
HandlerIdle ==
  [pc |-> "idle", timeStamp |-> NoStamp, client |-> NoClient, error |-> NoError,
   documents |-> <<>>, csv |-> <<>>, containerExists |-> FALSE,
   blobName |-> NoBlobName, exit |-> "none"]

\* no retryOperation call is active
RetryIdle ==
  [pc |-> "idle", maxRetries |-> 0, delay |-> 0, attempt |-> 0, wakeAt |-> 0,
   startedAt |-> 0, failedAt |-> 0, opClient |-> NoClient, result |-> NoClient,
   error |-> NoError, thrown |-> <<>>, opCalls |-> 0]

\* retryOperation(operation, maxRetries, delay) entered: attempt = 1
RetryCall(maxRetries, delay) ==
  [RetryIdle EXCEPT !.pc = "loop", !.maxRetries = maxRetries, !.delay = delay,
                    !.attempt = 1]

Info(msg, arg) == [level |-> "info", msg |-> msg, arg |-> arg]
Err(msg, arg) == [level |-> "error", msg |-> msg, arg |-> arg]

\* a collaborator call as a spy records it: what was called, with which
\* arguments, and how it ended ("pending" while it is awaited)
Call(op) == [op |-> op, blobName |-> NoBlobName, payload |-> <<>>, result |-> "pending"]
UploadCall(blobName, payload) ==
  [op |-> "upload", blobName |-> blobName, payload |-> payload, result |-> "pending"]

\* the awaited call, the last of the trace, ends
Settle(trace, result) == [trace EXCEPT ![Len(trace)].result = result]

\* the calls of one operation, in order
CallsOf(trace, op) == SelectSeq(trace, LAMBDA c : c.op = op)

\* calls still awaited
Pending(trace) == Len(SelectSeq(trace, LAMBDA c : c.result = "pending"))

\* number of calls of a collaborator operation in a call trace
RECURSIVE CountOp(_, _)
CountOp(trace, op) ==
  IF Len(trace) = 0 THEN 0
  ELSE (IF trace[1].op = op THEN 1 ELSE 0) + CountOp(Tail(trace), op)

\* number of log lines with a given text
RECURSIVE CountMsg(_, _)
CountMsg(lines, msg) ==
  IF Len(lines) = 0 THEN 0
  ELSE (IF lines[1].msg = msg THEN 1 ELSE 0) + CountMsg(Tail(lines), msg)

(* ------------------------------------------------------------------ clock *)

\* time passes; it may always pass while a retry delay is still running
Tick ==
  /\ \/ now < MaxTime
     \/ \E r \in Runs : rt[r].pc = "sleep" /\ now < rt[r].wakeAt
  /\ now' = now + TickMs
  /\ UNCHANGED <<env, storage, clients, h, rt, log, calls>>

(* --------------------------------------------------------- retryOperation *)

\* variant: the loop body runs once before the test (a do-while)
LoopContinuesDoWhile(attempt, maxRetries) == attempt = 1 \/ attempt <= maxRetries

\* for (...; attempt <= maxRetries; ...)
LoopContinues(attempt, maxRetries) == attempt <= maxRetries

\* variant: the rethrow test is off by one, so the attempt before the last throws
LastAttemptEarly(attempt, maxRetries) == attempt >= maxRetries - 1

\* if (attempt === maxRetries) throw error
LastAttempt(attempt, maxRetries) == attempt = maxRetries

\* variant: the delay is not passed to setTimeout, so the timer is due at once
TimerDueNow(setAt, delay) == setAt

\* setTimeout(resolve, delay): the timer is due `delay` after it was set
TimerDueAt(setAt, delay) == setAt + delay

\* variant: the first error is kept and rethrown instead of the last
RethrownFirst(caught, thrown) == thrown[1]

\* the error retryOperation rethrows: the one it has just caught
Rethrown(caught, thrown) == caught

\* loop test, then `operation()`: connectToMongoDB creates a new MongoClient
\* and starts client.connect(); a false loop test ends the function, which
\* resolves to undefined
RetryLoop(r) ==
  /\ rt[r].pc = "loop"
  /\ IF LoopContinues(rt[r].attempt, rt[r].maxRetries)
     THEN /\ clients' = Append(clients, [owner |-> r, state |-> "connecting"])
          /\ rt' = [rt EXCEPT ![r].pc = "await", ![r].opClient = Len(clients) + 1,
                              ![r].opCalls = @ + 1, ![r].startedAt = now]
          /\ calls' = [calls EXCEPT ![r] = Append(@, Call("connect"))]
     ELSE /\ rt' = [rt EXCEPT ![r].pc = "returned", ![r].result = NoClient]
          /\ UNCHANGED <<clients, calls>>
  /\ UNCHANGED <<env, now, storage, h, log>>

\* variant: the result is kept but the `return` is missing, so the loop goes on
OpSucceedsContinues(r) ==
  /\ rt[r].pc = "await"
  /\ clients' = [clients EXCEPT ![rt[r].opClient].state = "connected"]
  /\ rt' = [rt EXCEPT ![r].pc = "loop", ![r].result = rt[r].opClient,
                      ![r].attempt = @ + 1]
  /\ calls' = [calls EXCEPT ![r] = Settle(@, "resolved")]
  /\ UNCHANGED <<env, now, storage, h, log>>

\* client.connect() resolves: connectToMongoDB returns the client and
\* retryOperation returns it at once
OpSucceeds(r) ==
  /\ rt[r].pc = "await"
  /\ clients' = [clients EXCEPT ![rt[r].opClient].state = "connected"]
  /\ rt' = [rt EXCEPT ![r].pc = "returned", ![r].result = rt[r].opClient]
  /\ calls' = [calls EXCEPT ![r] = Settle(@, "resolved")]
  /\ UNCHANGED <<env, now, storage, h, log>>

\* variant: connectToMongoDB closes the client it created when connect
\* rejects, before the error goes on to retryOperation
OpFailsReleases(r) ==
  /\ rt[r].pc = "await"
  /\ \E name \in DriverErrorNames :
       LET error == DriverError(name, rt[r].opCalls)
           thrown == Append(rt[r].thrown, error)
       IN  /\ clients' = [clients EXCEPT ![rt[r].opClient].state = "closed"]
           /\ IF LastAttempt(rt[r].attempt, rt[r].maxRetries)
              THEN /\ rt' = [rt EXCEPT ![r].pc = "thrown",
                                       ![r].error = Rethrown(error, thrown),
                                       ![r].thrown = thrown, ![r].failedAt = now]
                   /\ calls' = [calls EXCEPT ![r] = Settle(@, "rejected")]
              ELSE /\ rt' = [rt EXCEPT ![r].pc = "sleep", ![r].thrown = thrown,
                                       ![r].failedAt = now,
                                       ![r].wakeAt = TimerDueAt(now, rt[r].delay)]
                   /\ calls' = [calls EXCEPT ![r] =
                                  Append(Settle(@, "rejected"), Call("delay"))]
  /\ UNCHANGED <<env, now, storage, h, log>>

\* client.connect() rejects: the last attempt rethrows, any other attempt
\* starts the delay timer
OpFails(r) ==
  /\ rt[r].pc = "await"
  /\ \E name \in DriverErrorNames :
       LET error == DriverError(name, rt[r].opCalls)
           thrown == Append(rt[r].thrown, error)
       IN  /\ clients' = [clients EXCEPT ![rt[r].opClient].state = "failed"]
           /\ IF LastAttempt(rt[r].attempt, rt[r].maxRetries)
              THEN /\ rt' = [rt EXCEPT ![r].pc = "thrown",
                                       ![r].error = Rethrown(error, thrown),
                                       ![r].thrown = thrown, ![r].failedAt = now]
                   /\ calls' = [calls EXCEPT ![r] = Settle(@, "rejected")]
              ELSE /\ rt' = [rt EXCEPT ![r].pc = "sleep", ![r].thrown = thrown,
                                       ![r].failedAt = now,
                                       ![r].wakeAt = TimerDueAt(now, rt[r].delay)]
                   /\ calls' = [calls EXCEPT ![r] =
                                  Append(Settle(@, "rejected"), Call("delay"))]
  /\ UNCHANGED <<env, now, storage, h, log>>

\* variant: the promise around setTimeout is never resolved
DelayNeverResolves(r) ==
  /\ rt[r].pc = "sleep"
  /\ FALSE
  /\ UNCHANGED vars

\* the timer fires, the catch block ends, attempt++
DelayElapsed(r) ==
  /\ rt[r].pc = "sleep"
  /\ now >= rt[r].wakeAt
  /\ rt' = [rt EXCEPT ![r].pc = "loop", ![r].attempt = @ + 1]
  /\ calls' = [calls EXCEPT ![r] = Settle(@, "resolved")]
  /\ UNCHANGED <<env, now, storage, clients, h, log>>

RetryStep(r) == RetryLoop(r) \/ OpSucceeds(r) \/ OpFails(r) \/ DelayElapsed(r)

(* ------------------------------------------------- module.exports handler *)

\* variant: only undefined counts as missing, the empty string passes
MissingUndefinedOnly(v) == v = Undefined

\* `!x` for a value that is a string or undefined
Missing(v) == v = Undefined \/ v = ""

\* the input validation's condition: one of the five values is missing
ConfigMissing(e) == \E n \in ConfigNames : Missing(e[n])

\* the message of the ContainerNotFoundError, which quotes BlobContainerName
ContainerMessage(e) == <<"Container \"", e["BlobContainerName"], "\" does not exist">>

NoDataError == CustomError(<<"No documents found in MongoDB">>, "NoDataError")

ContainerNotFoundError(e) == CustomError(ContainerMessage(e), "ContainerNotFoundError")

\* errors of the blob client, and of MongoClient.close
BlobErrorNames == {"RestError"}
CloseErrorNames == {"MongoNetworkError"}

\* variant: the blob is named after the time of the upload
NameStampAtUpload(timeStamp, clock) == clock

\* the stamp the blob is named after: the handler's timeStamp local
NameStamp(timeStamp, clock) == timeStamp

\* the text handed to uploadToBlob: the csv local
UploadPayload(csv, documents) == csv

\* variant: an existing blob of that name is kept
UploadedIfAbsent(blobs, blobName, payload) ==
  IF \E b \in blobs : b.name = blobName
  THEN blobs
  ELSE blobs \cup {[name |-> blobName, content |-> payload]}

\* the blob service after uploadStream: a blob of that name is replaced
Uploaded(blobs, blobName, payload) ==
  {b \in blobs : b.name # blobName} \cup {[name |-> blobName, content |-> payload]}

\* the catch block's lines: message, stack, then one line by the error's class
CatchLines(error) ==
  << Err("Error occurred", error.message), Err("Error stack", <<error.name, error.id>>),
     IF error.name = "CustomError"
       THEN Err("Custom error type", <<error.type>>)
     ELSE IF error.name = "MongoServerSelectionError"
       THEN Err("Failed to select a MongoDB server. Check your network settings and connection string.", <<>>)
     ELSE IF error.name = "MongoNetworkError"
       THEN Err("MongoDB network error. Ensure your MongoDB Atlas IP whitelist includes your function app's IP address.", <<>>)
     ELSE Err("An unexpected error occurred.", <<>>) >>

\* the finally block's test: if (client)
ShouldClose(client) == client # NoClient

\* const timeStamp = new Date().toISOString(); the first log line
Start(r) ==
  /\ h[r].pc = "idle"
  /\ h' = [h EXCEPT ![r].pc = "validate", ![r].timeStamp = toISOString(now)]
  /\ log' = [log EXCEPT ![r] = Append(@, Info("JavaScript timer trigger function started:",
                                               <<toISOString(now)>>))]
  /\ UNCHANGED <<env, now, storage, clients, rt, calls>>

\* input validation fails: one error line, return
ValidateFails(r) ==
  /\ h[r].pc = "validate"
  /\ ConfigMissing(env)
  /\ h' = [h EXCEPT ![r].pc = "done", ![r].exit = "returned"]
  /\ log' = [log EXCEPT ![r] = Append(@, Err("Missing required environment variables", <<>>))]
  /\ UNCHANGED <<env, now, storage, clients, rt, calls>>

\* input validation passes: try { client = await retryOperation(...) }
ValidateOk(r) ==
  /\ h[r].pc = "validate"
  /\ ~ConfigMissing(env)
  /\ h' = [h EXCEPT ![r].pc = "connect"]
  /\ rt' = [rt EXCEPT ![r] = RetryCall(DefaultMaxRetries, DefaultDelay)]
  /\ UNCHANGED <<env, now, storage, clients, log, calls>>

\* retryOperation returned: client is assigned, client.db(..).collection(..),
\* then fetchDataFromMongoDB starts collection.find({}).toArray()
ConnectReturns(r) ==
  /\ h[r].pc = "connect"
  /\ rt[r].pc = "returned"
  /\ IF rt[r].result = NoClient
     THEN /\ h' = [h EXCEPT ![r].pc = "catch", ![r].error = DriverError("TypeError", 0)]
          /\ log' = [log EXCEPT ![r] = Append(@, Info("Connected to MongoDB successfully", <<>>))]
          /\ calls' = calls
     ELSE /\ h' = [h EXCEPT ![r].pc = "fetch", ![r].client = rt[r].result]
          /\ log' = [log EXCEPT ![r] = Append(@, Info("Connected to MongoDB successfully", <<>>))]
          /\ calls' = [calls EXCEPT ![r] = Append(@, Call("fetch"))]
  /\ UNCHANGED <<env, now, storage, clients, rt>>

\* retryOperation threw: control goes to the catch block, client stays undefined
ConnectThrows(r) ==
  /\ h[r].pc = "connect"
  /\ rt[r].pc = "thrown"
  /\ h' = [h EXCEPT ![r].pc = "catch", ![r].error = rt[r].error]
  /\ UNCHANGED <<env, now, storage, clients, rt, log, calls>>

\* variant: the empty-result test is missing, an empty csv goes on to the upload
FetchReturnsUnchecked(r) ==
  /\ h[r].pc = "fetch"
  /\ \E documents \in Batches :
       LET csv == IF Len(documents) = 0 THEN <<>> ELSE generateCSV(documents)
       IN  /\ h' = [h EXCEPT ![r].pc = "probe", ![r].documents = documents, ![r].csv = csv]
           /\ log' = [log EXCEPT ![r] = @ \o
                        << Info("Retrieved documents from MongoDB", <<Len(documents)>>),
                           Info("Generated CSV with size", <<Len(csv)>>) >>]
           /\ calls' = [calls EXCEPT ![r] =
                          Append(Settle(@, IF Len(documents) = 0 THEN "empty" ELSE "documents"),
                                 Call("exists"))]
  /\ UNCHANGED <<env, now, storage, clients, rt>>

\* variant: the existence probe is left out and the upload starts right after
\* the csv is generated
FetchReturnsSkipsProbe(r) ==
  /\ h[r].pc = "fetch"
  /\ \E documents \in Batches :
       IF Len(documents) = 0
       THEN /\ h' = [h EXCEPT ![r].pc = "catch", ![r].documents = documents,
                              ![r].error = NoDataError]
            /\ calls' = [calls EXCEPT ![r] = Settle(@, "empty")]
            /\ log' = log
       ELSE LET blobName == BlobName(NameStamp(h[r].timeStamp, toISOString(now)))
            IN  /\ h' = [h EXCEPT ![r].pc = "upload", ![r].documents = documents,
                                  ![r].csv = generateCSV(documents),
                                  ![r].blobName = blobName]
                /\ log' = [log EXCEPT ![r] = @ \o
                             << Info("Retrieved documents from MongoDB", <<Len(documents)>>),
                                Info("Generated CSV with size", <<Len(generateCSV(documents))>>) >>]
                /\ calls' = [calls EXCEPT ![r] =
                               Append(Settle(@, "documents"),
                                      UploadCall(blobName, generateCSV(documents)))]
  /\ UNCHANGED <<env, now, storage, clients, rt>>

\* toArray() resolves: an empty result throws NoDataError; otherwise the csv
\* is generated and containerClient.exists() is started
FetchReturns(r) ==
  /\ h[r].pc = "fetch"
  /\ \E documents \in Batches :
       IF Len(documents) = 0
       THEN /\ h' = [h EXCEPT ![r].pc = "catch", ![r].documents = documents,
                              ![r].error = NoDataError]
            /\ calls' = [calls EXCEPT ![r] = Settle(@, "empty")]
            /\ log' = log
       ELSE /\ h' = [h EXCEPT ![r].pc = "probe", ![r].documents = documents,
                              ![r].csv = generateCSV(documents)]
            /\ log' = [log EXCEPT ![r] = @ \o
                         << Info("Retrieved documents from MongoDB", <<Len(documents)>>),
                            Info("Generated CSV with size", <<Len(generateCSV(documents))>>) >>]
            /\ calls' = [calls EXCEPT ![r] = Append(Settle(@, "documents"), Call("exists"))]
  /\ UNCHANGED <<env, now, storage, clients, rt>>

\* toArray() rejects
FetchThrows(r) ==
  /\ h[r].pc = "fetch"
  /\ \E name \in DriverErrorNames :
       h' = [h EXCEPT ![r].pc = "catch", ![r].error = DriverError(name, 0)]
  /\ calls' = [calls EXCEPT ![r] = Settle(@, "rejected")]
  /\ UNCHANGED <<env, now, storage, clients, rt, log>>

\* variant: a missing container is created (createIfNotExists) and the upload goes on
ProbeReturnsCreates(r) ==
  /\ h[r].pc = "probe"
  /\ LET blobName == BlobName(NameStamp(h[r].timeStamp, toISOString(now)))
     IN  /\ storage' = [storage EXCEPT !.exists = TRUE]
         /\ h' = [h EXCEPT ![r].pc = "upload", ![r].containerExists = storage.exists,
                           ![r].blobName = blobName]
         /\ calls' = [calls EXCEPT ![r] =
                        Append(Settle(@, IF storage.exists THEN "true" ELSE "false"),
                               UploadCall(blobName, UploadPayload(h[r].csv, h[r].documents)))]
  /\ UNCHANGED <<env, now, clients, rt, log>>

\* exists() resolves: false throws ContainerNotFoundError; true names the
\* blob and starts uploadToBlob
ProbeReturns(r) ==
  /\ h[r].pc = "probe"
  /\ IF ~storage.exists
     THEN /\ h' = [h EXCEPT ![r].pc = "catch", ![r].containerExists = FALSE,
                            ![r].error = ContainerNotFoundError(env)]
          /\ calls' = [calls EXCEPT ![r] = Settle(@, "false")]
     ELSE LET blobName == BlobName(NameStamp(h[r].timeStamp, toISOString(now)))
          IN  /\ h' = [h EXCEPT ![r].pc = "upload", ![r].containerExists = TRUE,
                                ![r].blobName = blobName]
              /\ calls' = [calls EXCEPT ![r] =
                             Append(Settle(@, "true"), UploadCall(blobName,
                                                  UploadPayload(h[r].csv, h[r].documents)))]
  /\ UNCHANGED <<env, now, storage, clients, rt, log>>

\* exists() rejects
ProbeThrows(r) ==
  /\ h[r].pc = "probe"
  /\ \E name \in BlobErrorNames :
       h' = [h EXCEPT ![r].pc = "catch", ![r].error = DriverError(name, 0)]
  /\ calls' = [calls EXCEPT ![r] = Settle(@, "rejected")]
  /\ UNCHANGED <<env, now, storage, clients, rt, log>>

\* uploadStream resolves: the blob is stored, the two success lines are logged
UploadReturns(r) ==
  /\ h[r].pc = "upload"
  /\ storage' = [storage EXCEPT !.blobs =
                   Uploaded(@, h[r].blobName, calls[r][Len(calls[r])].payload)]
  /\ h' = [h EXCEPT ![r].pc = "finally"]
  /\ calls' = [calls EXCEPT ![r] = Settle(@, "resolved")]
  /\ log' = [log EXCEPT ![r] = @ \o
               << Info("CSV file uploaded successfully to Blob Storage", <<h[r].blobName>>),
                  Info("Function execution completed successfully", <<>>) >>]
  /\ UNCHANGED <<env, now, clients, rt>>

\* variant: the upload is wrapped in the retry as well, so a rejected upload
\* is started again, up to three times
UploadThrowsRetries(r) ==
  /\ h[r].pc = "upload"
  /\ \E name \in BlobErrorNames :
       IF CountOp(calls[r], "upload") < 3
       THEN /\ h' = h
            /\ calls' = [calls EXCEPT ![r] =
                           Append(Settle(@, "rejected"),
                                  UploadCall(h[r].blobName, h[r].csv))]
       ELSE /\ h' = [h EXCEPT ![r].pc = "catch", ![r].error = DriverError(name, 0)]
            /\ calls' = [calls EXCEPT ![r] = Settle(@, "rejected")]
  /\ UNCHANGED <<env, now, storage, clients, rt, log>>

\* uploadStream rejects
UploadThrows(r) ==
  /\ h[r].pc = "upload"
  /\ \E name \in BlobErrorNames :
       h' = [h EXCEPT ![r].pc = "catch", ![r].error = DriverError(name, 0)]
  /\ calls' = [calls EXCEPT ![r] = Settle(@, "rejected")]
  /\ UNCHANGED <<env, now, storage, clients, rt, log>>

\* variant: the connection is closed at the end of the try block only, so a
\* caught error ends the run without the close
CatchSkipsFinally(r) ==
  /\ h[r].pc = "catch"
  /\ h' = [h EXCEPT ![r].pc = "done", ![r].exit = "returned"]
  /\ log' = [log EXCEPT ![r] = @ \o CatchLines(h[r].error)]
  /\ UNCHANGED <<env, now, storage, clients, rt, calls>>

\* variant: an empty catch block, the error is swallowed without a line
CatchSilent(r) ==
  /\ h[r].pc = "catch"
  /\ h' = [h EXCEPT ![r].pc = "finally"]
  /\ UNCHANGED <<env, now, storage, clients, rt, log, calls>>

\* catch (error) { ... }: the error is logged and not rethrown
Catch(r) ==
  /\ h[r].pc = "catch"
  /\ h' = [h EXCEPT ![r].pc = "finally"]
  /\ log' = [log EXCEPT ![r] = @ \o CatchLines(h[r].error)]
  /\ UNCHANGED <<env, now, storage, clients, rt, calls>>

\* finally { if (client) { try { await client.close() ... } } }
Finally(r) ==
  /\ h[r].pc = "finally"
  /\ IF ShouldClose(h[r].client)
     THEN /\ h' = [h EXCEPT ![r].pc = "close"]
          /\ calls' = [calls EXCEPT ![r] = Append(@, Call("close"))]
     ELSE /\ h' = [h EXCEPT ![r].pc = "done", ![r].exit = "returned"]
          /\ calls' = calls
  /\ UNCHANGED <<env, now, storage, clients, rt, log>>

\* variant: `client` is declared at module scope, so the finally block closes
\* the client object created last, whichever run created it
CloseReturnsShared(r) ==
  /\ h[r].pc = "close"
  /\ clients' = [clients EXCEPT ![Len(clients)].state = "closed"]
  /\ h' = [h EXCEPT ![r].pc = "done", ![r].exit = "returned"]
  /\ calls' = [calls EXCEPT ![r] = Settle(@, "resolved")]
  /\ log' = [log EXCEPT ![r] = Append(@, Info("MongoDB connection closed", <<>>))]
  /\ UNCHANGED <<env, now, storage, rt>>

\* client.close() resolves
CloseReturns(r) ==
  /\ h[r].pc = "close"
  /\ clients' = [clients EXCEPT ![h[r].client].state = "closed"]
  /\ h' = [h EXCEPT ![r].pc = "done", ![r].exit = "returned"]
  /\ calls' = [calls EXCEPT ![r] = Settle(@, "resolved")]
  /\ log' = [log EXCEPT ![r] = Append(@, Info("MongoDB connection closed", <<>>))]
  /\ UNCHANGED <<env, now, storage, rt>>

\* variant: client.close() is awaited without its own try/catch, so its error
\* leaves the handler
CloseThrowsRaises(r) ==
  /\ h[r].pc = "close"
  /\ \E name \in CloseErrorNames :
       /\ clients' = [clients EXCEPT ![h[r].client].state = "close failed"]
       /\ h' = [h EXCEPT ![r].pc = "done", ![r].exit = "raised"]
  /\ calls' = [calls EXCEPT ![r] = Settle(@, "rejected")]
  /\ UNCHANGED <<env, now, storage, rt, log>>

\* variant: client.close() is awaited inside the outer try, so its error is
\* caught and logged as the run's error
CloseThrowsMasks(r) ==
  /\ h[r].pc = "close"
  /\ \E name \in CloseErrorNames :
       /\ clients' = [clients EXCEPT ![h[r].client].state = "close failed"]
       /\ h' = [h EXCEPT ![r].pc = "done", ![r].exit = "returned",
                         ![r].error = DriverError(name, 0)]
       /\ log' = [log EXCEPT ![r] = @ \o CatchLines(DriverError(name, 0))]
  /\ calls' = [calls EXCEPT ![r] = Settle(@, "rejected")]
  /\ UNCHANGED <<env, now, storage, rt>>

\* client.close() rejects: catch (closeError) logs it and goes on
CloseThrows(r) ==
  /\ h[r].pc = "close"
  /\ \E name \in CloseErrorNames :
       /\ clients' = [clients EXCEPT ![h[r].client].state = "close failed"]
       /\ h' = [h EXCEPT ![r].pc = "done", ![r].exit = "returned"]
       /\ log' = [log EXCEPT ![r] = Append(@,
                    Err("Error occurred while closing MongoDB connection", <<name>>))]
  /\ calls' = [calls EXCEPT ![r] = Settle(@, "rejected")]
  /\ UNCHANGED <<env, now, storage, rt>>

HandlerStep(r) ==
  \/ Start(r) \/ ValidateFails(r) \/ ValidateOk(r)
  \/ ConnectReturns(r) \/ ConnectThrows(r)
  \/ FetchReturns(r) \/ FetchThrows(r)
  \/ ProbeReturns(r) \/ ProbeThrows(r)
  \/ UploadReturns(r) \/ UploadThrows(r)
  \/ Catch(r) \/ Finally(r) \/ CloseReturns(r) \/ CloseThrows(r)

(* --------------------------------------------------------- specifications *)

\* the invocation that Spec runs
SoloRuns == {1}

\* one timer firing: every environment, either state of the container
Init ==
  /\ env \in [ConfigNames -> EnvValues]
  /\ now = 0
  /\ storage \in [exists : BOOLEAN, blobs : {{}}]
  /\ clients = <<>>
  /\ h = [r \in Runs |-> HandlerIdle]
  /\ rt = [r \in Runs |-> RetryIdle]
  /\ log = [r \in Runs |-> <<>>]
  /\ calls = [r \in Runs |-> <<>>]

Next == Tick \/ \E r \in SoloRuns : HandlerStep(r) \/ RetryStep(r)

Spec == Init /\ [][Next]_vars

\* Spec with the scheduling the event loop gives: time passes, and every
\* awaited collaborator call and every timer is eventually answered, which
\* lets the run take its next step
SpecLive ==
  /\ Init
  /\ [][Next]_vars
  /\ WF_vars(Tick)
  /\ \A r \in SoloRuns : WF_vars(HandlerStep(r) \/ RetryStep(r))

\* two timer firings that may overlap, with a complete configuration; the
\* clock then moves only while a retry delay runs
InitConc ==
  /\ env = [n \in ConfigNames |-> "v"]
  /\ now = MaxTime
  /\ storage \in [exists : BOOLEAN, blobs : {{}}]
  /\ clients = <<>>
  /\ h = [r \in Runs |-> HandlerIdle]
  /\ rt = [r \in Runs |-> RetryIdle]
  /\ log = [r \in Runs |-> <<>>]
  /\ calls = [r \in Runs |-> <<>>]

\* the overlapping runs are followed for at most MaxConcClients connect
\* attempts in all, and for one name of driver error: which of
\* the names a rejected connect or fetch carries only selects the log line
ConcScope ==
  \A r \in Runs :
    /\ \A i \in 1..Len(rt[r].thrown) : rt[r].thrown[i].name = "MongoNetworkError"
    /\ h[r].error.name \in {"none", "CustomError", "MongoNetworkError", "RestError"}
    /\ Len(clients) <= MaxConcClients

NextConc == (Tick \/ \E r \in Runs : HandlerStep(r) \/ RetryStep(r)) /\ ConcScope'

SpecConc == InitConc /\ [][NextConc]_vars

\* const csv = generateCSV(documents), run on its own
Encode(r) ==
  /\ h[r].pc = "encode"
  /\ h' = [h EXCEPT ![r].pc = "encoded", ![r].csv = generateCSV(h[r].documents)]
  /\ UNCHANGED <<env, now, storage, clients, rt, log, calls>>

\* generateCSV is handed every batch of stored documents up to MaxDocs long
InitCsv ==
  /\ env = [n \in ConfigNames |-> "v"]
  /\ now = 0
  /\ storage = [exists |-> TRUE, blobs |-> {}]
  /\ clients = <<>>
  /\ \E documents \in CsvBatches :
       h = [r \in Runs |-> IF r \in SoloRuns
                           THEN [HandlerIdle EXCEPT !.pc = "encode", !.documents = documents]
                           ELSE HandlerIdle]
  /\ rt = [r \in Runs |-> RetryIdle]
  /\ log = [r \in Runs |-> <<>>]
  /\ calls = [r \in Runs |-> <<>>]

NextCsv == \E r \in SoloRuns : Encode(r)

SpecCsv == InitCsv /\ [][NextCsv]_vars

\* retryOperation called on its own, with connectToMongoDB as the operation
\* and every maxRetries from -1 to MaxRetriesArg
InitRetry ==
  /\ env = [n \in ConfigNames |-> "v"]
  /\ now = 0
  /\ storage = [exists |-> TRUE, blobs |-> {}]
  /\ clients = <<>>
  /\ h = [r \in Runs |-> [HandlerIdle EXCEPT !.pc = "external"]]
  /\ \E n \in (0 - 1)..MaxRetriesArg :
       rt = [r \in Runs |-> IF r \in SoloRuns THEN RetryCall(n, DefaultDelay) ELSE RetryIdle]
  /\ log = [r \in Runs |-> <<>>]
  /\ calls = [r \in Runs |-> <<>>]

NextRetry == Tick \/ \E r \in SoloRuns : RetryStep(r)

SpecRetry == InitRetry /\ [][NextRetry]_vars

(* ------------------------------------------------------------- properties *)

Done(r) == h[r].pc = "done"

\* the number of calls of an operation the run has made
Count(r, op) == CountOp(calls[r], op)

\* some call of the operation ended with the given answer
Answered(r, op, result) ==
  \E i \in 1..Len(calls[r]) : calls[r][i].op = op /\ calls[r][i].result = result

\* the run has logged a line with this text
HasLine(r, msg) == \E i \in 1..Len(log[r]) : log[r][i].msg = msg

\* the run has logged this text with this argument
HasLineWith(r, msg, arg) ==
  \E i \in 1..Len(log[r]) : log[r][i].msg = msg /\ log[r][i].arg = arg

HasErrorLine(r) == \E i \in 1..Len(log[r]) : log[r][i].level = "error"

\* process.env lacks a required value or holds the empty string for it
SomeValueAbsentOrEmpty == \E n \in ConfigNames : env[n] = Undefined \/ env[n] = ""

\* every connect attempt of the retry budget was made and rejected
ConnectExhausted(r) ==
  /\ Count(r, "connect") > 0
  /\ ~Answered(r, "connect", "resolved")
  /\ ~Answered(r, "connect", "pending")
  /\ ~Answered(r, "delay", "pending")
  /\ rt[r].pc # "loop"

\* the run failed at some stage (a rejected connect attempt that was retried
\* with success is no failure of the run)
RunFailed(r) ==
  \/ SomeValueAbsentOrEmpty
  \/ ConnectExhausted(r)
  \/ Answered(r, "fetch", "rejected") \/ Answered(r, "fetch", "empty")
  \/ Answered(r, "exists", "rejected") \/ Answered(r, "exists", "false")
  \/ Answered(r, "upload", "rejected")
  \/ Answered(r, "close", "rejected")

\* C1: close is called at most once, only after a connect attempt succeeded,
\* and a finished run has called it exactly once if a connect attempt
\* succeeded and not at all otherwise, whatever stage failed.
C1_CloseOncePerConnect ==
  \A r \in Runs :
    /\ Count(r, "close") <= 1
    /\ Count(r, "close") = 1 => Answered(r, "connect", "resolved")
    /\ Done(r) =>
         Count(r, "close") = IF Answered(r, "connect", "resolved") THEN 1 ELSE 0

\* a run that connected on a retry, failed at the upload and closed once
C1_Witness ==
  \E r \in Runs :
    /\ Done(r)
    /\ Answered(r, "connect", "rejected")
    /\ Answered(r, "connect", "resolved")
    /\ Answered(r, "upload", "rejected")
    /\ Count(r, "close") = 1

\* C2: the handler never raises; a finished run has returned normally, and it
\* has logged an error line exactly when some stage failed.
C2_NeverRaises ==
  \A r \in Runs :
    /\ h[r].exit # "raised"
    /\ Done(r) => /\ h[r].exit = "returned"
                  /\ RunFailed(r) <=> HasErrorLine(r)

\* a run in which both the container probe and the close were rejected
C2_Witness ==
  \E r \in Runs :
    /\ Done(r)
    /\ Answered(r, "exists", "rejected")
    /\ Answered(r, "close", "rejected")
    /\ h[r].exit = "returned"

\* C3: with a required value absent or empty the run makes no collaborator
\* call, creates no client, never enters retryOperation, and ends returned
\* with the error line `Missing required environment variables`.
C3_MissingConfigAborts ==
  \A r \in Runs :
    SomeValueAbsentOrEmpty =>
      /\ calls[r] = <<>>
      /\ clients = <<>>
      /\ rt[r].pc = "idle"
      /\ h[r].pc \in {"idle", "validate", "done"}
      /\ h[r].exit # "raised"
      /\ Done(r) => /\ h[r].exit = "returned"
                    /\ log[r][Len(log[r])].level = "error"
                    /\ log[r][Len(log[r])].msg = "Missing required environment variables"

\* a finished run whose only missing value is an empty CollectionName
C3_Witness ==
  \E r \in Runs :
    /\ Done(r)
    /\ env["CollectionName"] = ""
    /\ \A n \in ConfigNames \ {"CollectionName"} : env[n] = "v"
    /\ calls[r] = <<>>

\* C4: after an empty fetch result the run holds a CustomError of type
\* NoDataError, logs its type, has called fetch once and the container probe
\* and upload never, and once finished has called close exactly once.
C4_EmptyFetch ==
  \A r \in Runs :
    Answered(r, "fetch", "empty") =>
      /\ h[r].error = [name |-> "CustomError", type |-> "NoDataError",
                       message |-> <<"No documents found in MongoDB">>, id |-> 0]
      /\ Count(r, "fetch") = 1
      /\ Count(r, "exists") = 0
      /\ Count(r, "upload") = 0
      /\ storage.blobs = {}
      /\ h[r].pc \in {"finally", "close", "done"} =>
           /\ HasLineWith(r, "Custom error type", <<"NoDataError">>)
           /\ ~HasLine(r, "Function execution completed successfully")
      /\ Done(r) => Count(r, "close") = 1

\* a finished run whose fetch returned no documents
C4_Witness ==
  \E r \in Runs :
    /\ Done(r)
    /\ Answered(r, "fetch", "empty")
    /\ Count(r, "close") = 1
    /\ HasLineWith(r, "Custom error type", <<"NoDataError">>)

\* C5: after the container probe answered false the run holds a CustomError
\* of type ContainerNotFoundError whose message quotes BlobContainerName,
\* logs its type, never calls upload, leaves the container absent and
\* without blobs, and once finished has called close exactly once.
C5_ContainerMissing ==
  \A r \in Runs :
    Answered(r, "exists", "false") =>
      /\ h[r].error.name = "CustomError"
      /\ h[r].error.type = "ContainerNotFoundError"
      /\ \E i \in 1..Len(h[r].error.message) :
           h[r].error.message[i] = env["BlobContainerName"]
      /\ Count(r, "upload") = 0
      /\ ~storage.exists
      /\ storage.blobs = {}
      /\ h[r].pc \in {"finally", "close", "done"} =>
           HasLineWith(r, "Custom error type", <<"ContainerNotFoundError">>)
      /\ Done(r) => Count(r, "close") = 1

\* a finished run whose container probe answered false
C5_Witness ==
  \E r \in Runs :
    /\ Done(r)
    /\ Answered(r, "exists", "false")
    /\ Count(r, "upload") = 0
    /\ Count(r, "close") = 1

\* C6: when retryOperation ends by throwing, the operation was called exactly
\* maxRetries >= 1 times, every call was rejected, exactly maxRetries - 1
\* delays were made, and the error thrown is the very error of the last call;
\* with maxRetries >= 1 it never returns without a call having succeeded.
C6_AlwaysFailingThrowsLast ==
  \A r \in Runs :
    /\ rt[r].pc = "thrown" =>
         /\ rt[r].maxRetries >= 1
         /\ Count(r, "connect") = rt[r].maxRetries
         /\ \A i \in 1..Len(calls[r]) :
              calls[r][i].op = "connect" => calls[r][i].result = "rejected"
         /\ Count(r, "delay") = rt[r].maxRetries - 1
         /\ Len(rt[r].thrown) = rt[r].maxRetries
         /\ rt[r].error = rt[r].thrown[rt[r].maxRetries]
         /\ rt[r].error.id = rt[r].maxRetries
    /\ (rt[r].pc = "returned" /\ rt[r].maxRetries >= 1) =>
         Answered(r, "connect", "resolved")

\* three rejected calls with maxRetries = 3, the first and the last error of
\* different names, and the last one thrown
C6_Witness ==
  \E r \in Runs :
    /\ rt[r].pc = "thrown"
    /\ rt[r].maxRetries = 3
    /\ Count(r, "connect") = 3
    /\ Count(r, "delay") = 2
    /\ rt[r].thrown[1].name # rt[r].thrown[3].name
    /\ rt[r].error = rt[r].thrown[3]

\* C7: once a call of the operation has succeeded, at the k-th call,
\* retryOperation has returned that call's client, k <= maxRetries, the k-1
\* earlier calls were rejected, exactly k-1 delays were made, and the
\* successful call is the last thing retryOperation did.
C7_FirstSuccessReturns ==
  \A r \in Runs :
    Answered(r, "connect", "resolved") =>
      LET cs == CallsOf(calls[r], "connect")
          k == Len(cs)
      IN  /\ rt[r].pc = "returned"
          /\ k <= rt[r].maxRetries
          /\ rt[r].result = rt[r].opClient
          /\ rt[r].result # NoClient
          /\ clients[rt[r].result].state = "connected"
          /\ Len(clients) = k
          /\ \A i \in 1..(k - 1) : cs[i].result = "rejected"
          /\ cs[k].result = "resolved"
          /\ calls[r][Len(calls[r])].op = "connect"
          /\ Count(r, "delay") = k - 1

\* two rejected calls, then a success at the third with maxRetries = 3
C7_Witness ==
  \E r \in Runs :
    /\ rt[r].pc = "returned"
    /\ rt[r].maxRetries = 3
    /\ Answered(r, "connect", "resolved")
    /\ Count(r, "connect") = 3
    /\ Count(r, "delay") = 2
    /\ rt[r].result = 3

\* the catch block's advice on a MongoDB error has been logged
HasGuidance(r) ==
  \/ HasLine(r, "Failed to select a MongoDB server. Check your network settings and connection string.")
  \/ HasLine(r, "MongoDB network error. Ensure your MongoDB Atlas IP whitelist includes your function app's IP address.")

\* C8 as stated: when every connect attempt has failed, the run has made
\* exactly 3 attempts and 2 delays, has called none of fetch, probe and
\* upload, and has logged the failure with guidance text.
C8_AsStated ==
  \A r \in Runs :
    (ConnectExhausted(r) /\ h[r].pc \in {"finally", "close", "done"}) =>
      /\ Count(r, "connect") = 3
      /\ Count(r, "delay") = 2
      /\ Count(r, "fetch") = 0 /\ Count(r, "exists") = 0 /\ Count(r, "upload") = 0
      /\ HasGuidance(r)

\* C8 amended: an attempt after the first starts no sooner than 1000 ms after
\* the failure before it; when every connect attempt has failed, the run has
\* made exactly 3 attempts and 2 delays and calls none of fetch, probe,
\* upload and close; it logs the last attempt's message, with the server
\* selection advice exactly for a MongoServerSelectionError, the network
\* advice exactly for a MongoNetworkError, and `An unexpected error
\* occurred.` exactly for an error of any other name.
C8_ConnectExhausted ==
  \A r \in Runs :
    /\ (rt[r].pc = "await" /\ rt[r].attempt > 1) =>
         rt[r].startedAt >= rt[r].failedAt + 1000
    /\ ConnectExhausted(r) =>
         LET last == rt[r].thrown[Len(rt[r].thrown)]
         IN  /\ Count(r, "connect") = 3
             /\ Count(r, "delay") = 2
             /\ Count(r, "fetch") = 0 /\ Count(r, "exists") = 0
             /\ Count(r, "upload") = 0 /\ Count(r, "close") = 0
             /\ last.id = 3
             /\ h[r].pc \in {"finally", "close", "done"} =>
                  /\ HasLineWith(r, "Error occurred", last.message)
                  /\ ~HasLine(r, "Function execution completed successfully")
                  /\ last.name = "MongoServerSelectionError" <=>
                       HasLine(r, "Failed to select a MongoDB server. Check your network settings and connection string.")
                  /\ last.name = "MongoNetworkError" <=>
                       HasLine(r, "MongoDB network error. Ensure your MongoDB Atlas IP whitelist includes your function app's IP address.")
                  /\ last.name \notin {"MongoServerSelectionError", "MongoNetworkError"} <=>
                       HasLine(r, "An unexpected error occurred.")

\* a finished run whose three connect attempts failed, the last with an error
\* that is neither a server selection nor a network error
C8_Witness ==
  \E r \in Runs :
    /\ Done(r)
    /\ ConnectExhausted(r)
    /\ Count(r, "connect") = 3
    /\ rt[r].thrown[3].name = "Error"
    /\ HasLine(r, "An unexpected error occurred.")
    /\ ~HasGuidance(r)

\* C9: once the upload has succeeded, upload was called exactly once, named
\* data-export-<T>.csv for the stamp T of the run's first log line, with the
\* csv of the fetched batch as payload, and the container holds that blob;
\* the finished run has called close once, has returned, and has logged the
\* success line and no error.
C9_SuccessfulRun ==
  \A r \in Runs :
    Answered(r, "upload", "resolved") =>
      LET u == CallsOf(calls[r], "upload")
          T == log[r][1].arg[1]
      IN  /\ Len(u) = 1
          /\ log[r][1].msg = "JavaScript timer trigger function started:"
          /\ u[1].blobName = [prefix |-> "data-export-", stamp |-> T, ext |-> ".csv"]
          /\ Len(h[r].documents) > 0
          /\ u[1].payload = generateCSV(h[r].documents)
          /\ [name |-> u[1].blobName, content |-> u[1].payload] \in storage.blobs
          /\ Count(r, "connect") \in 1..3
          /\ Count(r, "fetch") = 1 /\ Count(r, "exists") = 1
          /\ HasLine(r, "Function execution completed successfully")
          /\ ~HasLine(r, "Error occurred")
          /\ h[r].error = NoError
          /\ Done(r) => /\ Count(r, "close") = 1
                        /\ h[r].exit = "returned"

\* a finished successful run that connected on a retry, so that the clock at
\* the upload is past the stamp the blob is named after
C9_Witness ==
  \E r \in Runs :
    /\ Done(r)
    /\ Answered(r, "upload", "resolved")
    /\ Answered(r, "connect", "rejected")
    /\ Answered(r, "close", "resolved")
    /\ toISOString(now) # h[r].timeStamp
    /\ Cardinality(storage.blobs) = 1

\* C10: the step in which close ends, resolved or rejected, finishes the run
\* as returned and leaves the run's error, the container and every earlier
\* log line as they were, adding exactly one line, about the close.
C10_CloseKeepsOutcome ==
  [][\A r \in Runs :
       (h[r].pc = "close" /\ h'[r].pc # "close") =>
         /\ h'[r].pc = "done"
         /\ h'[r].exit = "returned"
         /\ h'[r].error = h[r].error
         /\ storage' = storage
         /\ Len(log'[r]) = Len(log[r]) + 1
         /\ SubSeq(log'[r], 1, Len(log[r])) = log[r]
         /\ log'[r][Len(log'[r])].msg \in
              {"MongoDB connection closed", "Error occurred while closing MongoDB connection"}
         /\ calls'[r][Len(calls[r])].result = "rejected" <=>
              log'[r][Len(log'[r])].level = "error"]_vars

\* a finished run whose upload succeeded and whose close was rejected: the
\* success line and the blob are there, next to the close error line
C10_Witness ==
  \E r \in Runs :
    /\ Done(r)
    /\ Answered(r, "upload", "resolved")
    /\ Answered(r, "close", "rejected")
    /\ HasLine(r, "Function execution completed successfully")
    /\ HasLine(r, "Error occurred while closing MongoDB connection")
    /\ h[r].error = NoError
    /\ Cardinality(storage.blobs) = 1

\* a call of fetch, the container probe or the upload has failed
LaterStageFailed(r) ==
  \/ Answered(r, "fetch", "rejected") \/ Answered(r, "fetch", "empty")
  \/ Answered(r, "exists", "rejected") \/ Answered(r, "exists", "false")
  \/ Answered(r, "upload", "rejected")

\* C11: fetch, the container probe, upload and close are each called at most
\* once in a run, whatever their answer, while connect is called up to three
\* times; after a failure of fetch, probe or upload no call but the one close
\* follows, so the failed call is the last of its stage and nothing is stored.
C11_OnlyConnectRetried ==
  \A r \in Runs :
    /\ Count(r, "connect") <= 3
    /\ Count(r, "fetch") <= 1
    /\ Count(r, "exists") <= 1
    /\ Count(r, "upload") <= 1
    /\ Count(r, "close") <= 1
    /\ Count(r, "delay") = Len(SelectSeq(calls[r],
                                LAMBDA c : c.op = "connect" /\ c.result = "rejected"))
                           - (IF ConnectExhausted(r) THEN 1 ELSE 0)
    /\ LaterStageFailed(r) =>
         /\ h[r].pc \in {"catch", "finally", "close", "done"}
         /\ h[r].error # NoError
         /\ storage.blobs = {}
         /\ \A i \in 1..Len(calls[r]) :
              calls[r][i].result \in {"rejected", "empty", "false"}
                /\ calls[r][i].op \in {"fetch", "exists", "upload"}
              => \A j \in (i + 1)..Len(calls[r]) : calls[r][j].op = "close"

\* a finished run that connected at the third attempt and whose single upload
\* was rejected
C11_Witness ==
  \E r \in Runs :
    /\ Done(r)
    /\ Count(r, "connect") = 3
    /\ Answered(r, "upload", "rejected")
    /\ Count(r, "upload") = 1
    /\ Count(r, "close") = 1

\* the stages of a run in the order of the source: not started, validation,
\* connect, fetch (and encode), probe, upload, catch, finally, close, ended
StageRank(pc) ==
  CASE pc = "idle" -> 0 [] pc = "validate" -> 1 [] pc = "connect" -> 2
    [] pc = "fetch" -> 3 [] pc = "probe" -> 4 [] pc = "upload" -> 5
    [] pc = "catch" -> 6 [] pc = "finally" -> 7 [] pc = "close" -> 8
    [] OTHER -> 9

\* the i-th call of a run was made when its preconditions held: connect is
\* first or follows an elapsed delay, a delay follows a rejected connect,
\* fetch follows a resolved connect, the probe a fetch that delivered
\* documents, the upload a probe that answered true, and close is made when
\* every earlier call has ended
CallInOrder(trace, i) ==
  LET c == trace[i]
      p == trace[i - 1]
  IN  CASE c.op = "connect" ->
             i = 1 \/ (p.op = "delay" /\ p.result = "resolved")
        [] c.op = "delay" -> i > 1 /\ p.op = "connect" /\ p.result = "rejected"
        [] c.op = "fetch" -> i > 1 /\ p.op = "connect" /\ p.result = "resolved"
        [] c.op = "exists" -> i > 1 /\ p.op = "fetch" /\ p.result = "documents"
        [] c.op = "upload" -> i > 1 /\ p.op = "exists" /\ p.result = "true"
        [] c.op = "close" ->
             /\ i = Len(trace)
             /\ \A j \in 1..(i - 1) : trace[j].result # "pending"
             /\ \E j \in 1..(i - 1) : trace[j].op = "connect" /\ trace[j].result = "resolved"
        [] OTHER -> FALSE

\* C12: whenever a run moves, it moves to a later stage, never back; every
\* collaborator call is made in order (fetch after a successful connect, the
\* probe after a fetch that delivered documents, whose csv is then held, the
\* upload after the probe answered true, close after every other call has
\* ended), and at most one call is awaited at a time.
C12_StagesInOrder ==
  [][\A r \in Runs :
       /\ h'[r].pc # h[r].pc => StageRank(h'[r].pc) > StageRank(h[r].pc)
       /\ \A i \in 1..Len(calls'[r]) : CallInOrder(calls'[r], i)
       /\ Pending(calls'[r]) <= 1
       /\ Count(r, "exists")' = 1 =>
            (Len(h'[r].documents) > 0 /\ h'[r].csv = generateCSV(h'[r].documents))]_vars

\* a finished run that went through every stage: connect, fetch, probe,
\* upload and close were all called and all succeeded
C12_Witness ==
  \E r \in Runs :
    /\ Done(r)
    /\ Answered(r, "connect", "resolved")
    /\ Answered(r, "fetch", "documents")
    /\ Answered(r, "exists", "true")
    /\ Answered(r, "upload", "resolved")
    /\ Answered(r, "close", "resolved")

\* C13: retryOperation calls the operation at most maxRetries times and has
\* at most one call awaited; a call after the first follows a rejected call
\* and the delay that came after it, and starts no sooner than `delay` after
\* that rejection; a delay follows only a rejected call that was not the
\* maxRetries-th, so none follows the final attempt or a success.
C13_AttemptsSequentialAndSpaced ==
  \A r \in Runs :
    LET t == calls[r]
    IN  /\ Count(r, "connect") <= (IF rt[r].maxRetries > 0 THEN rt[r].maxRetries ELSE 0)
        /\ Pending(t) <= 1
        /\ \A i \in 1..Len(t) : t[i].result = "pending" => i = Len(t)
        /\ (rt[r].pc = "await" /\ rt[r].attempt > 1) =>
             rt[r].startedAt >= rt[r].failedAt + rt[r].delay
        /\ rt[r].pc = "sleep" => rt[r].wakeAt = rt[r].failedAt + rt[r].delay
        /\ rt[r].pc \in {"loop", "await", "sleep", "returned", "thrown"} =>
             /\ rt[r].delay = 1000
             /\ \A i \in 1..Len(t) :
                  /\ (t[i].op = "connect" /\ i > 1) =>
                       /\ t[i - 1].op = "delay" /\ t[i - 1].result = "resolved"
                       /\ t[i - 2].op = "connect" /\ t[i - 2].result = "rejected"
                  /\ t[i].op = "delay" =>
                       /\ t[i - 1].op = "connect" /\ t[i - 1].result = "rejected"
                       /\ CountOp(SubSeq(t, 1, i), "connect") < rt[r].maxRetries
             /\ rt[r].pc \in {"returned", "thrown"} =>
                  (Len(t) > 0 => t[Len(t)].op # "delay")

\* the third call of the operation is awaited: two calls were rejected, two
\* delays have elapsed and the clock is at least 2000 ms past the start
C13_Witness ==
  \E r \in Runs :
    /\ rt[r].pc = "await"
    /\ rt[r].attempt = 3
    /\ Count(r, "connect") = 3
    /\ Count(r, "delay") = 2
    /\ now >= 2000

\* C14: when every collaborator call and every delay is eventually answered,
\* a run that has started eventually ends.
C14_RunTerminates == \A r \in Runs : (h[r].pc # "idle") ~> Done(r)

\* a run that ended after the longest path: three connect attempts, two
\* delays, then fetch, probe, upload and close
C14_Witness ==
  \E r \in Runs :
    /\ Done(r)
    /\ Count(r, "connect") = 3
    /\ Count(r, "delay") = 2
    /\ Count(r, "upload") = 1
    /\ Count(r, "close") = 1

\* everything a run owns: its locals, its retry state, its log, its calls
RunState(r) == <<h[r], rt[r], log[r], calls[r]>>

\* the client objects a run has created
ClientsOf(r) == {c \in 1..Len(clients) : clients[c].owner = r}

\* each run works on client objects of its own: it has created one per
\* connect call, holds one of them, and a client is closed only by the run
\* that created it, through that run's one close call; what a finished run
\* reports depends on the answers to its own calls only
OwnConnection ==
  \A r \in Runs :
    /\ Cardinality(ClientsOf(r)) = Count(r, "connect")
    /\ h[r].client # NoClient =>
         /\ h[r].client \in ClientsOf(r)
         /\ Answered(r, "connect", "resolved")
    /\ \A c \in ClientsOf(r) :
         clients[c].state \in {"closed", "close failed"} =>
           /\ h[r].client = c
           /\ Count(r, "close") = 1
           /\ ~Answered(r, "close", "pending")
    /\ Done(r) =>
         /\ HasLine(r, "Function execution completed successfully")
              <=> Answered(r, "upload", "resolved")
         /\ h[r].error # NoError <=> (ConnectExhausted(r) \/ LaterStageFailed(r))
         /\ Count(r, "close") = IF Answered(r, "connect", "resolved") THEN 1 ELSE 0

\* C15: overlapping runs each connect and close for themselves (OwnConnection
\* holds after every step), and a step of one run, a failure and a close
\* included, leaves the other run's locals, retry state, log, calls and
\* client objects as they were.
C15_RunsIndependent ==
  [][/\ OwnConnection'
     /\ \A r \in Runs : \A q \in Runs \ {r} :
          RunState(r)' # RunState(r) =>
            /\ RunState(q)' = RunState(q)
            /\ \A c \in ClientsOf(q) : clients'[c] = clients[c]]_vars

\* both runs are in flight at once, each holding a client of its own: one
\* has failed and is closing its connection while the other is uploading
C15_Witness ==
  \E r \in Runs : \E q \in Runs \ {r} :
    /\ h[r].pc = "close"
    /\ h[r].error # NoError
    /\ h[q].pc = "upload"
    /\ h[q].error = NoError
    /\ h[r].client # h[q].client
    /\ clients[h[q].client].state = "connected"

\* the run's upload is awaited in this state and has resolved in the next
UploadResolves(r) ==
  /\ h[r].pc = "upload"
  /\ h'[r].pc # "upload"
  /\ calls'[r][Len(calls[r])].result = "resolved"

\* the runs whose upload has succeeded
Succeeded == {r \in Runs : Answered(r, "upload", "resolved")}

\* C16: an upload that succeeds stores its payload under its blob name in
\* place of any blob of that name and leaves the other blobs alone, and the
\* run logs success; so the container holds one blob per distinct name among
\* the successful runs, and two successful runs with the same start stamp
\* leave one blob.
C16_UploadOverwrites ==
  [][/\ \A r \in Runs :
          UploadResolves(r) =>
            LET u == calls[r][Len(calls[r])]
            IN  /\ [name |-> u.blobName, content |-> u.payload] \in storage'.blobs
                /\ \A b \in storage'.blobs : b.name = u.blobName => b.content = u.payload
                /\ \A b \in storage.blobs : b.name # u.blobName => b \in storage'.blobs
                /\ HasLine(r, "Function execution completed successfully")'
                /\ h'[r].error = NoError
     /\ Cardinality(storage'.blobs) = Cardinality({h'[r].blobName : r \in Succeeded'})
     /\ \A r \in Succeeded' : \A q \in Succeeded' :
          h'[r].timeStamp = h'[q].timeStamp => h'[r].blobName = h'[q].blobName]_vars

\* two finished successful runs with the same start stamp and different
\* payloads: one blob is left for two successes
C16_Witness ==
  \E r \in Runs : \E q \in Runs \ {r} :
    /\ Done(r) /\ Done(q)
    /\ Succeeded = {r, q}
    /\ h[r].timeStamp = h[q].timeStamp
    /\ h[r].csv # h[q].csv
    /\ HasLine(r, "Function execution completed successfully")
    /\ HasLine(q, "Function execution completed successfully")
    /\ Cardinality(storage.blobs) = 1

\* a text cut at every occurrence of a separator
RECURSIVE SplitOn(_, _)
SplitOn(text, sep) ==
  IF \A i \in 1..Len(text) : text[i] # sep
  THEN <<text>>
  ELSE LET k == CHOOSE i \in 1..Len(text) :
                  text[i] = sep /\ \A j \in 1..(i - 1) : text[j] # sep
       IN  <<SubSeq(text, 1, k - 1)>> \o SplitOn(SubSeq(text, k + 1, Len(text)), sep)

C18_SuccessXorError ==
  \A r \in Runs :
    LET ok == CountMsg(log[r], "Function execution completed successfully")
        ko == CountMsg(log[r], "Error occurred")
    IN  /\ ok + ko <= 1
        /\ ok = 1 <=> Answered(r, "upload", "resolved")
        /\ Answered(r, "upload", "resolved") =>
             /\ Answered(r, "connect", "resolved")
             /\ Answered(r, "fetch", "documents")
             /\ Answered(r, "exists", "true")
        /\ (h[r].pc \in {"finally", "close", "done"} /\ ~SomeValueAbsentOrEmpty) =>
             /\ ok + ko = 1
             /\ ko = 1 <=> (ConnectExhausted(r) \/ LaterStageFailed(r))
        /\ (Done(r) /\ ~SomeValueAbsentOrEmpty) => ok + ko = 1
        /\ (Done(r) /\ SomeValueAbsentOrEmpty) => ok + ko = 0
        /\ Answered(r, "close", "rejected") =>
             /\ CountMsg(log[r], "Error occurred while closing MongoDB connection") = 1
             /\ ok + ko = 1

\* a finished run whose upload succeeded and whose close was rejected holds
\* the success line and the close error line, and no `Error occurred` line
C18_Witness ==
  \E r \in Runs :
    /\ Done(r)
    /\ Answered(r, "upload", "resolved")
    /\ Answered(r, "close", "rejected")
    /\ CountMsg(log[r], "Function execution completed successfully") = 1
    /\ CountMsg(log[r], "Error occurred") = 0
    /\ CountMsg(log[r], "Error occurred while closing MongoDB connection") = 1

\* the connect calls of a run that were rejected
RejectedConnects(r) ==
  Len(SelectSeq(calls[r], LAMBDA c : c.op = "connect" /\ c.result = "rejected"))

\* the client objects of a run whose connect was rejected and that were never
\* closed
Unreleased(r) == {c \in ClientsOf(r) : clients[c].state = "failed"}

\* C19: a run has created one client object per connect call; close is called
\* on the client the successful attempt returned and on no other; the client
\* of a rejected attempt is never closed, so a run with f rejected connect
\* attempts holds f unreleased clients, also when it has ended.
C19_FailedClientsLeak ==
  \A r \in Runs :
    /\ Cardinality(ClientsOf(r)) = Count(r, "connect")
    /\ Cardinality(Unreleased(r)) = RejectedConnects(r)
    /\ \A c \in ClientsOf(r) :
         clients[c].state \in {"closed", "close failed"} =>
           /\ Count(r, "close") = 1
           /\ h[r].client = c
           /\ rt[r].result = c
           /\ c \notin Unreleased(r)
    /\ Cardinality({c \in ClientsOf(r) :
                      clients[c].state \in {"connected", "closed", "close failed"}}) <= 1
    /\ (Done(r) /\ Answered(r, "close", "resolved")) =>
         /\ clients[h[r].client].state = "closed"
         /\ Cardinality(ClientsOf(r)) = RejectedConnects(r) + 1

\* a finished run that connected at its third attempt: the third client is
\* closed, the first two are left unreleased
C19_Witness ==
  \E r \in Runs :
    /\ Done(r)
    /\ RejectedConnects(r) = 2
    /\ Cardinality(Unreleased(r)) = 2
    /\ h[r].client = 3
    /\ clients[3].state = "closed"
    /\ clients[1].state = "failed" /\ clients[2].state = "failed"

\* retryOperation has ended, by returning or by throwing
RetryEnded(r) == rt[r].pc \in {"returned", "thrown"}

\* C20: with maxRetries <= 0 retryOperation never calls the operation,
\* makes no delay and never throws, and it returns undefined; with
\* maxRetries >= 1 it ends either by returning the client of a call that
\* succeeded or by throwing an error that a call of the operation threw.
C20_ZeroAttempts ==
  \A r \in Runs :
    /\ (rt[r].pc # "idle" /\ rt[r].maxRetries <= 0) =>
         /\ calls[r] = <<>>
         /\ clients = <<>>
         /\ rt[r].pc \in {"loop", "returned"}
         /\ rt[r].error = NoError
         /\ rt[r].result = NoClient
    /\ (RetryEnded(r) /\ rt[r].maxRetries >= 1) =>
         \/ /\ rt[r].pc = "returned"
            /\ rt[r].result # NoClient
            /\ clients[rt[r].result].state = "connected"
            /\ rt[r].error = NoError
         \/ /\ rt[r].pc = "thrown"
            /\ rt[r].result = NoClient
            /\ \E i \in 1..Len(rt[r].thrown) : rt[r].error = rt[r].thrown[i]
            /\ rt[r].error.name \in DriverErrorNames

\* retryOperation called with maxRetries = 0 has returned undefined without
\* a call of the operation
C20_Witness ==
  \E r \in Runs :
    /\ rt[r].pc = "returned"
    /\ rt[r].maxRetries = 0
    /\ rt[r].result = NoClient
    /\ calls[r] = <<>>

====
